---- MODULE Spec2Model ----
(***************************************************************************)
(* Model of brightness_and_contrast.py: load_image, the linear tone        *)
(* transform adjust_brightness_contrast (cv2.convertScaleAbs), and the     *)
(* pipeline of main: load -> transform each of 3 channels -> display.      *)
(*                                                                         *)
(* Real parameters are rationals n / Den.  An array is a sequence of rows, *)
(* a row a sequence of samples (a channel) or of 3-sample pixels (an       *)
(* image).  Python's None is the empty sequence.                           *)
(***************************************************************************)
EXTENDS Integers, Sequences, FiniteSets, TLC

VARIABLES
    fs,             \* the path on disk: [exists, isfile]
    fileImg,        \* what decoding the file yields (BGR image), None if undecodable
    alpha, beta,    \* the parameters: [kind, n], value n / Den when kind = "num"
    pc,             \* position in the program
    imreadResult,   \* load_image: local img_color (line 21)
    img_color,      \* main: img_color (line 113)
    adjusted_color, \* main: adjusted_color (line 117)
    iter,           \* main: items of range(3) not yet visited (line 118)
    channel,        \* adjust_brightness_contrast called directly: argument img
    new_img,        \* adjust_brightness_contrast called directly: returned array
    stdout,         \* the message printed by load_image, "" if none
    raised,         \* the exception that ended the call or the process, "none" if none
    exitCode,       \* process exit status, -1 while running
    calls,          \* history: [imread, convert, display] call counts
    log,            \* history: channels transformed so far, in order
    shown           \* history: arguments handed to display_images, None before

vars == <<fs, fileImg, alpha, beta, pc, imreadResult, img_color, adjusted_color,
          iter, channel, new_img, stdout, raised, exitCode, calls, log, shown>>

-----------------------------------------------------------------------------
(* Bounds and constants *)

\* denominator of the rational parameters
Den == 2
\* largest contrast coefficient tried on a direct call
MaxAlpha == 3
\* largest absolute brightness offset tried on a direct call
MaxBeta == 260
\* image height and width in the pipeline
Height == 1
Width == 2
\* largest value of an 8-bit sample (uint8 output of convertScaleAbs)
MaxSample == 255
\* range(3): the channels of a colour image
NumChannels == 3

None == <<>>

Num(n) == [kind |-> "num", n |-> n]
NonNumeric == [kind |-> "str", n |-> 0]

-----------------------------------------------------------------------------
(* cv2.convertScaleAbs: dst = saturate_cast<uchar>(|alpha * src + beta|) *)

Abs(v) == IF v < 0 THEN -v ELSE v

\* cvRound of the non-negative rational p / q: nearest integer, ties to even
CvRound(p, q) ==
    LET fl == p \div q
        rem == p % q
    IN  IF 2 * rem < q THEN fl
        ELSE IF 2 * rem > q THEN fl + 1
        ELSE IF fl % 2 = 0 THEN fl ELSE fl + 1

SaturateCastNone(v) == v
SaturateCastSchar(v) == IF v > 127 THEN 127 ELSE v
\* saturate_cast<uchar> of a non-negative integer
SaturateCast(v) == IF v > MaxSample THEN MaxSample ELSE v

\* one sample: |alpha * x + beta|, rounded, saturated
ConvertSample(x, a, b) == SaturateCast(CvRound(Abs(a.n * x + b.n), Den))

ConvertScaleAbs(img, a, b) ==
    [r \in 1..Len(img) |-> [c \in 1..Len(img[r]) |-> ConvertSample(img[r][c], a, b)]]

-----------------------------------------------------------------------------
(* adjust_brightness_contrast *)

IsNumeric(p) == p.kind = "num"

ValidateNoBetaCheck(a, b) ==
    IF ~IsNumeric(a) THEN "TypeError"
    ELSE IF a.n < 0 THEN "ValueError"
    ELSE "none"
\* lines 60-67: the exception the parameter checks raise, "none" if they pass
Validate(a, b) ==
    IF ~IsNumeric(a) THEN "TypeError"
    ELSE IF ~IsNumeric(b) THEN "TypeError"
    ELSE IF a.n < 0 THEN "ValueError"
    ELSE "none"

\* the call's outcome: the exception raised, the value returned, and whether
\* cv2.convertScaleAbs was invoked
adjust_brightness_contrast(img, a, b) ==
    LET e == Validate(a, b)
    IN  IF e # "none"
        THEN [raised |-> e, value |-> None, converted |-> FALSE]
        ELSE [raised |-> "none", value |-> ConvertScaleAbs(img, a, b), converted |-> TRUE]

-----------------------------------------------------------------------------
(* Array helpers (numpy / cv2) *)

\* img[:, :, k]
Channel(img, k) ==
    [r \in 1..Len(img) |-> [c \in 1..Len(img[r]) |-> img[r][c][k + 1]]]

\* dst[:, :, k] = ch
SetChannel(dst, k, ch) ==
    [r \in 1..Len(dst) |->
        [c \in 1..Len(dst[r]) |-> [dst[r][c] EXCEPT ![k + 1] = ch[r][c]]]]

\* np.zeros_like(img)
ZerosLike(img) ==
    [r \in 1..Len(img) |-> [c \in 1..Len(img[r]) |-> <<0, 0, 0>>]]

\* cv2.cvtColor(img, cv2.COLOR_BGR2RGB)
CvtColorBGR2RGB(img) ==
    [r \in 1..Len(img) |->
        [c \in 1..Len(img[r]) |-> <<img[r][c][3], img[r][c][2], img[r][c][1]>>]]

\* (height, width) of an array
Shape(img) == <<Len(img), IF Len(img) = 0 THEN 0 ELSE Len(img[1])>>

-----------------------------------------------------------------------------
(* load_image *)

\* cv2.imread(path, IMREAD_COLOR): None unless the path is a decodable file
Imread(f, content) == IF f.exists /\ f.isfile THEN content ELSE None

LoadFailureFileCheckFirst(f, img) ==
    IF ~f.isfile THEN "IsADirectory"
    ELSE IF ~f.exists THEN "NotFound"
    ELSE IF img = None THEN "Decode"
    ELSE "none"
\* lines 23-33: which of the three messages is printed before sys.exit(1)
LoadFailure(f, img) ==
    IF ~f.exists THEN "NotFound"
    ELSE IF ~f.isfile THEN "IsADirectory"
    ELSE IF img = None THEN "Decode"
    ELSE "none"

\* line 21
LoadImread ==
    /\ pc = "load21"
    /\ imreadResult' = Imread(fs, fileImg)
    /\ calls' = [calls EXCEPT !.imread = @ + 1]
    /\ pc' = "load23"
    /\ UNCHANGED <<fs, fileImg, alpha, beta, img_color, adjusted_color, iter,
                   channel, new_img, stdout, raised, exitCode, log, shown>>

\* lines 23-38: the three checks, then the conversion and the return to main
LoadValidate ==
    /\ pc = "load23"
    /\ LET f == LoadFailure(fs, imreadResult)
       IN  IF f # "none"
           THEN /\ stdout' = f
                /\ exitCode' = 1
                /\ pc' = "exited"
                /\ UNCHANGED img_color
           ELSE /\ img_color' = CvtColorBGR2RGB(imreadResult)
                /\ pc' = "main117"
                /\ UNCHANGED <<stdout, exitCode>>
    /\ UNCHANGED <<fs, fileImg, alpha, beta, imreadResult, adjusted_color, iter,
                   channel, new_img, raised, calls, log, shown>>

-----------------------------------------------------------------------------
(* main *)

Range(n) == [k \in 1..n |-> k - 1]

Remove(s, x) == SelectSeq(s, LAMBDA y : y # x)

Elems(s) == {s[k] : k \in 1..Len(s)}

MainAllocTwoChannels ==
    /\ pc = "main117"
    /\ adjusted_color' = ZerosLike(img_color)
    /\ iter' = Range(NumChannels - 1)
    /\ pc' = "main118"
    /\ UNCHANGED <<fs, fileImg, alpha, beta, imreadResult, img_color, channel,
                   new_img, stdout, raised, exitCode, calls, log, shown>>
\* lines 117-118: the output buffer and the loop's iterator
MainAlloc ==
    /\ pc = "main117"
    /\ adjusted_color' = ZerosLike(img_color)
    /\ iter' = Range(NumChannels)
    /\ pc' = "main118"
    /\ UNCHANGED <<fs, fileImg, alpha, beta, imreadResult, img_color, channel,
                   new_img, stdout, raised, exitCode, calls, log, shown>>

LoopBodyChained(adj, img, k, a, b) ==
    SetChannel(adj, k,
        adjust_brightness_contrast(
            IF k = 0 THEN Channel(img, 0) ELSE Channel(adj, k - 1), a, b).value)
\* lines 119-121, when the call returns: adjusted_color after the assignment
LoopBody(adj, img, k, a, b) ==
    SetChannel(adj, k, adjust_brightness_contrast(Channel(img, k), a, b).value)

TransformChannelSwallow(k) ==
    /\ pc = "main118"
    /\ k \in Elems(iter)
    /\ LET r == adjust_brightness_contrast(Channel(img_color, k), alpha, beta)
       IN  /\ calls' = [calls EXCEPT !.convert = @ + (IF r.converted THEN 1 ELSE 0)]
           /\ iter' = Remove(iter, k)
           /\ log' = Append(log, k)
           /\ IF r.raised # "none"
              THEN UNCHANGED adjusted_color
              ELSE adjusted_color' = LoopBody(adjusted_color, img_color, k, alpha, beta)
    /\ UNCHANGED <<fs, fileImg, alpha, beta, pc, imreadResult, img_color, channel,
                   new_img, stdout, raised, exitCode, shown>>
\* lines 119-121: one iteration of the loop, for channel k; an exception of
\* the call is not caught anywhere and ends the process
TransformChannel(k) ==
    /\ pc = "main118"
    /\ k \in Elems(iter)
    /\ LET r == adjust_brightness_contrast(Channel(img_color, k), alpha, beta)
       IN  /\ calls' = [calls EXCEPT !.convert = @ + (IF r.converted THEN 1 ELSE 0)]
           /\ IF r.raised # "none"
              THEN /\ raised' = r.raised
                   /\ exitCode' = 1
                   /\ pc' = "exited"
                   /\ UNCHANGED <<adjusted_color, iter, log>>
              ELSE /\ adjusted_color' = LoopBody(adjusted_color, img_color, k, alpha, beta)
                   /\ iter' = Remove(iter, k)
                   /\ log' = Append(log, k)
                   /\ UNCHANGED <<raised, exitCode, pc>>
    /\ UNCHANGED <<fs, fileImg, alpha, beta, imreadResult, img_color, channel,
                   new_img, stdout, shown>>

\* line 118: the loop visits range(3) in order
MainLoop == pc = "main118" /\ iter # <<>> /\ TransformChannel(Head(iter))

\* the three iterations taken in any order
AnyOrderLoop == \E k \in 0..(NumChannels - 1) : TransformChannel(k)

\* line 124 and display_images: the rendering either succeeds or raises
\* RuntimeError (lines 96-97), which nothing catches
MainShow ==
    /\ pc = "main118"
    /\ iter = <<>>
    /\ shown' = <<[original |-> img_color, adjusted |-> adjusted_color,
                   alpha |-> alpha, beta |-> beta]>>
    /\ calls' = [calls EXCEPT !.display = @ + 1]
    /\ \E ok \in BOOLEAN :
          IF ok
          THEN /\ exitCode' = 0
               /\ pc' = "done"
               /\ UNCHANGED raised
          ELSE /\ raised' = "RuntimeError"
               /\ exitCode' = 1
               /\ pc' = "exited"
    /\ UNCHANGED <<fs, fileImg, alpha, beta, imreadResult, img_color,
                   adjusted_color, iter, channel, new_img, stdout, log>>

-----------------------------------------------------------------------------
(* adjust_brightness_contrast called on its own *)

ApplyCall ==
    /\ pc = "call"
    /\ LET r == adjust_brightness_contrast(channel, alpha, beta)
       IN  /\ new_img' = r.value
           /\ raised' = r.raised
           /\ calls' = [calls EXCEPT !.convert = @ + (IF r.converted THEN 1 ELSE 0)]
           /\ pc' = IF r.raised # "none" THEN "raised" ELSE "returned"
    /\ UNCHANGED <<fs, fileImg, alpha, beta, imreadResult, img_color,
                   adjusted_color, iter, channel, stdout, exitCode, log, shown>>

-----------------------------------------------------------------------------
(* Inputs *)

\* the states a path can be in: missing, a directory, a file
PathStates ==
    {[exists |-> FALSE, isfile |-> FALSE],
     [exists |-> TRUE, isfile |-> FALSE],
     [exists |-> TRUE, isfile |-> TRUE]}

\* BGR pixels of the decoded file
PixelSet == {<<0, 10, 100>>, <<100, 200, 255>>, <<10, 0, 200>>}

Images == [1..Height -> [1..Width -> PixelSet]]

\* argparse type=float: always numeric; 1.5 and 30 are the defaults
MainAlphas == {Num(-1), Num(0), Num(Den), Num((3 * Den) \div 2)}
MainBetas == {Num(-50 * Den), Num(0), Num(30 * Den)}

\* a 1 x 256 channel holding every sample value once
Ramp == <<[k \in 1..(MaxSample + 1) |-> k - 1]>>

ApplyAlphas == {Num(n) : n \in (-Den)..(MaxAlpha * Den)} \cup {NonNumeric}
ApplyBetas == {Num(n) : n \in (-MaxBeta * Den)..(MaxBeta * Den)} \cup {NonNumeric}

NoCalls == [imread |-> 0, convert |-> 0, display |-> 0]

\* python brightness_and_contrast.py <path> --alpha a --beta b
Init ==
    /\ fs \in PathStates
    /\ fileImg \in (IF fs.isfile THEN Images \cup {None} ELSE {None})
    /\ alpha \in MainAlphas
    /\ beta \in MainBetas
    /\ pc = "load21"
    /\ imreadResult = None
    /\ img_color = None
    /\ adjusted_color = None
    /\ iter = <<>>
    /\ channel = None
    /\ new_img = None
    /\ stdout = ""
    /\ raised = "none"
    /\ exitCode = -1
    /\ calls = NoCalls
    /\ log = <<>>
    /\ shown = None

Next == LoadImread \/ LoadValidate \/ MainAlloc \/ MainLoop \/ MainShow

Spec == Init /\ [][Next]_vars

\* the same program with the loop's iterations in any order
NextAnyOrder == LoadImread \/ LoadValidate \/ MainAlloc \/ AnyOrderLoop \/ MainShow

SpecAnyOrder == Init /\ [][NextAnyOrder]_vars

\* adjust_brightness_contrast(channel, alpha, beta) called by a test or a library user
InitApply ==
    /\ fs = [exists |-> FALSE, isfile |-> FALSE]
    /\ fileImg = None
    /\ alpha \in ApplyAlphas
    /\ beta \in ApplyBetas
    /\ pc = "call"
    /\ imreadResult = None
    /\ img_color = None
    /\ adjusted_color = None
    /\ iter = <<>>
    /\ channel = Ramp
    /\ new_img = None
    /\ stdout = ""
    /\ raised = "none"
    /\ exitCode = -1
    /\ calls = NoCalls
    /\ log = <<>>
    /\ shown = None

NextApply == ApplyCall

SpecApply == InitApply /\ [][NextApply]_vars

-----------------------------------------------------------------------------
(* Properties *)

\* round(p / q) for a rational of either sign, ties to even
RoundSigned(p, q) == IF p < 0 THEN -CvRound(-p, q) ELSE CvRound(p, q)

Clamp(v, lo, hi) == IF v < lo THEN lo ELSE IF v > hi THEN hi ELSE v

\* the samples of the 1-row channel handed to a direct call
Samples == 1..Len(channel[1])

\* C1: every returned sample equals round(alpha * x + beta) clamped to [0, 255]
\* (a negative computed value yields 0).
C1_ClampedLinear ==
    pc = "returned" =>
        \A k \in Samples :
            new_img[1][k] =
                Clamp(RoundSigned(alpha.n * channel[1][k] + beta.n, Den), 0, MaxSample)

\* C2: for fixed alpha >= 0 and any beta, the returned samples are
\* non-decreasing in the input sample.
C2_Monotone ==
    pc = "returned" =>
        \A k1, k2 \in Samples :
            channel[1][k1] <= channel[1][k2] => new_img[1][k1] <= new_img[1][k2]

\* C3: every returned sample lies in [0, 255].
C3_Saturation ==
    pc = "returned" => \A k \in Samples : new_img[1][k] \in 0..MaxSample

\* a call whose computed values fall below 0 for one sample and above 255 for
\* another, both returned inside the range
C3_Witness ==
    /\ pc = "returned"
    /\ \E k \in Samples :
          alpha.n * channel[1][k] + beta.n < 0 /\ new_img[1][k] \in 0..MaxSample
    /\ \E k \in Samples :
          alpha.n * channel[1][k] + beta.n > MaxSample * Den /\ new_img[1][k] = MaxSample

\* C8: with alpha = 1 and beta = 0 the call returns every sample unchanged.
C8_Identity ==
    (pc = "returned" /\ alpha = Num(Den) /\ beta = Num(0)) => new_img = channel

C8_Witness ==
    /\ pc = "returned"
    /\ alpha = Num(Den)
    /\ beta = Num(0)
    /\ Len(new_img[1]) = MaxSample + 1
    /\ new_img[1][MaxSample + 1] = MaxSample

\* C6: the parameters are validated before any computation: a non-numeric
\* alpha or beta ends the call with TypeError, a numeric negative alpha with
\* ValueError, in both cases with no array returned and no conversion made;
\* numeric parameters with alpha >= 0 are accepted whatever the sign of beta.
C6_Validation ==
    pc # "call" =>
        /\ (alpha.kind # "num" \/ beta.kind # "num") =>
              (pc = "raised" /\ raised = "TypeError" /\ new_img = None /\ calls.convert = 0)
        /\ (alpha.kind = "num" /\ beta.kind = "num" /\ alpha.n < 0) =>
              (pc = "raised" /\ raised = "ValueError" /\ new_img = None /\ calls.convert = 0)
        /\ (alpha.kind = "num" /\ beta.kind = "num" /\ alpha.n >= 0) =>
              (pc = "returned" /\ raised = "none" /\ new_img # None /\ calls.convert = 1)

\* a numeric alpha with a non-numeric beta is rejected
C6_Witness ==
    /\ pc = "raised"
    /\ raised = "TypeError"
    /\ alpha.kind = "num"
    /\ alpha.n >= 0
    /\ beta.kind # "num"

C5_NoDecodeOnMissingPath == ~fs.exists => calls.imread = 0

\* C7: display_images is called only after load_image succeeded and the three
\* channels were transformed, in the order 0, 1, 2; after a failed load or a
\* failed transform the process has ended without any display; nothing is
\* done twice.
C7_LinearPipeline ==
    /\ calls.display > 0 =>
          /\ stdout = ""
          /\ img_color # None
          /\ log = Range(NumChannels)
          /\ calls.convert = NumChannels
    /\ (stdout # "" \/ raised \in {"TypeError", "ValueError"} \/ alpha.n < 0) =>
          (calls.display = 0 /\ shown = None)
    /\ (stdout # "" \/ raised \in {"TypeError", "ValueError"}) =>
          (pc = "exited" /\ exitCode > 0)
    /\ calls.imread <= 1
    /\ calls.display <= 1
    /\ Cardinality(Elems(log)) = Len(log)

\* a negative alpha ended the run after a successful load, with no display
C7_Witness ==
    /\ pc = "exited"
    /\ raised = "ValueError"
    /\ img_color # None
    /\ calls.display = 0

\* C9: the original handed to display_images is the image load_image
\* returned, and the adjusted image is a buffer of the same shape with 3
\* channels, every sample of which holds the transform of the original's
\* sample at the same place.
C9_FreshBuffer ==
    shown # None =>
        LET s == shown[1]
        IN  /\ s.original = CvtColorBGR2RGB(fileImg)
            /\ s.original = img_color
            /\ Shape(s.adjusted) = Shape(s.original)
            /\ \A r \in 1..Len(s.original) : \A c \in 1..Len(s.original[r]) :
                  /\ Len(s.adjusted[r][c]) = NumChannels
                  /\ \A k \in 1..NumChannels :
                        s.adjusted[r][c][k] = ConvertSample(s.original[r][c][k], alpha, beta)

\* a displayed pair whose adjusted image differs from the original
C9_Witness ==
    /\ shown # None
    /\ pc = "done"
    /\ shown[1].adjusted # shown[1].original
    /\ shown[1].adjusted # ZerosLike(shown[1].original)

\* adjusted_color as the loop of main leaves it after visiting ks in order
RECURSIVE SequentialLoop(_, _, _, _, _)
SequentialLoop(adj, img, ks, a, b) ==
    IF ks = <<>> THEN adj
    ELSE SequentialLoop(LoopBody(adj, img, Head(ks), a, b), img, Tail(ks), a, b)

\* C10: whatever the order in which the channels are transformed, every
\* channel already transformed holds what the sequential loop 0, 1, 2 of
\* main puts there, so the final adjusted image is the same.
C10_OrderIndependent ==
    \A k \in Elems(log) :
        Channel(adjusted_color, k) =
            Channel(SequentialLoop(ZerosLike(img_color), img_color,
                                   Range(NumChannels), alpha, beta), k)

\* the three channels were transformed in the order 2, 0, 1 and displayed
C10_Witness ==
    /\ log = <<2, 0, 1>>
    /\ shown # None
    /\ shown[1].adjusted # ZerosLike(img_color)

====
